---- MODULE Spec2Model ----
(***************************************************************************)
(* A model of causalpy/utils.py: the two column predicates, the            *)
(* significant-figures selector and the two string formatters.             *)
(*                                                                         *)
(* Numbers.  A Python float is modelled exactly: the value v is held as    *)
(* the integer t = v * Scale.  The floats of the model are dyadic          *)
(* (multiples of 1/16 or of 1/2, times a power of ten), so each is a       *)
(* binary float with no representation error and has at most four          *)
(* decimals; rounding ties are then real ties and Python breaks them       *)
(* half-to-even on the exact value.                                        *)
(*                                                                         *)
(* Strings.  A Python str is the sequence of its characters.               *)
(***************************************************************************)
EXTENDS Integers, Sequences, FiniteSets, TLC

VARIABLES arg, opt, op, result, called

vars == <<arg, opt, op, result, called>>

(***************************************************************************)
(* Bounds of the model.                                                    *)
(***************************************************************************)
MaxLen == 3          \* longest column
MaxVal == 2          \* column values and labels are 0..MaxVal
MaxMant == 20        \* float mantissas are 0..MaxMant
MaxExp == 2          \* float decimal exponents are 0..MaxExp
MaxDistMant == 3     \* mantissas of the percentiles of a distribution
MaxDistExp == 1      \* decimal exponents of the percentiles of a distribution
MaxMeanMant == 2     \* mantissas of the mean of a distribution
MaxInt == 3          \* integer scalars are -MaxInt..MaxInt
MaxRoundTo == 4      \* round_to / default are 0..MaxRoundTo, or unset

(***************************************************************************)
(* Number representation.                                                  *)
(***************************************************************************)
Scale == 10 * 10 * 10 * 10

Sixteenth == Scale \div 16

Half == Scale \div 2

RECURSIVE Pow10(_)
Pow10(k) == IF k <= 0 THEN 1 ELSE 10 * Pow10(k - 1)

Floats ==
    { s * u * m * Pow10(e) :
        s \in {-1, 1}, u \in {Sixteenth, Half}, m \in 0..MaxMant, e \in 0..MaxExp }

DistVals ==
    { s * u * m * Pow10(e) :
        s \in {-1, 1}, u \in {Sixteenth, Half}, m \in 0..MaxDistMant, e \in 0..MaxDistExp }

DistMeans == { s * u * m : s \in {-1, 1}, u \in {Sixteenth, Half}, m \in 0..MaxMeanMant }

Ints == { n * Scale : n \in -MaxInt..MaxInt }

np_abs(t) == IF t < 0 THEN -t ELSE t

\* A slip: the smaller of the two.
max_smaller(a, b) == IF a >= b THEN b ELSE a

max(a, b) == IF a >= b THEN a ELSE b

(***************************************************************************)
(* np.log10 of a positive number a / Scale.  The real result is held as    *)
(* its floor and whether it is a whole number, which is all int() reads.   *)
(***************************************************************************)
RECURSIVE FloorLog10(_)
FloorLog10(a) ==
    IF a >= 10 * Scale THEN 1 + FloorLog10(a \div 10)
    ELSE IF a < Scale THEN FloorLog10(a * 10) - 1
    ELSE 0

np_log10(a) ==
    LET e == FloorLog10(a)
    IN  [floor |-> e,
         whole |-> IF e >= 0 THEN a = Scale * Pow10(e) ELSE a * Pow10(-e) = Scale]

\* A slip: rounding down instead of toward zero.
int_floor(r) == r.floor

\* Python's int() of a real: truncation toward zero.
int(r) ==
    IF r.floor >= 0 \/ r.whole THEN r.floor ELSE r.floor + 1

(***************************************************************************)
(* Python's format mini-language, for the two presentation types the file  *)
(* uses: ".2f" and ".<p>g".                                                *)
(***************************************************************************)
DigitChar == <<"0", "1", "2", "3", "4", "5", "6", "7", "8", "9">>

RECURSIVE Digits(_)
Digits(n) ==
    IF n < 10 THEN <<DigitChar[n + 1]>>
    ELSE Append(Digits(n \div 10), DigitChar[(n % 10) + 1])

RECURSIVE DigitsN(_, _)
DigitsN(n, k) ==
    IF k <= 0 THEN <<>>
    ELSE Append(DigitsN(n \div 10, k - 1), DigitChar[(n % 10) + 1])

RECURSIVE Zeros(_)
Zeros(k) == IF k <= 0 THEN <<>> ELSE <<"0">> \o Zeros(k - 1)

RECURSIVE StripZeros(_)
StripZeros(s) ==
    IF s # <<>> /\ s[Len(s)] = "0" THEN StripZeros(SubSeq(s, 1, Len(s) - 1)) ELSE s

\* Scale = 10^ScaleExp
ScaleExp == Len(Digits(Scale)) - 1

\* a / d rounded to the nearest integer, ties to even (a >= 0, d >= 1).
RoundHalfEven(a, d) ==
    LET q == a \div d
        r == a % d
    IN  IF 2 * r > d \/ (2 * r = d /\ q % 2 = 1) THEN q + 1 ELSE q

Sign(t) == IF t < 0 THEN <<"-">> ELSE <<>>

\* f"{x:.2f}"
Format2f(t) ==
    LET h == RoundHalfEven(np_abs(t), Scale \div 100)
    IN  Sign(t) \o Digits(h \div 100) \o <<".">> \o DigitsN(h % 100, 2)

WithPoint(whole, frac) ==
    IF StripZeros(frac) = <<>> THEN whole ELSE whole \o <<".">> \o StripZeros(frac)

\* f"{x:.{p}g}": p significant digits (a precision of 0 counts as 1), fixed
\* notation when the decimal exponent x of the rounded value has
\* -4 <= x < p and scientific otherwise, trailing zeros removed.
FormatG(t, p) ==
    IF t = 0 THEN <<"0">>
    ELSE
    LET prec == IF p = 0 THEN 1 ELSE p
        a == np_abs(t)
        e == FloorLog10(a)
        k == prec - 1 - e
        m0 == IF k >= ScaleExp THEN a * Pow10(k - ScaleExp)
              ELSE RoundHalfEven(a, Pow10(ScaleExp - k))
        carry == m0 = Pow10(prec)
        x == IF carry THEN e + 1 ELSE e
        m == IF carry THEN Pow10(prec - 1) ELSE m0
        digs == DigitsN(m, prec)
    IN  IF -4 <= x /\ x < prec
        THEN IF x >= 0
             THEN Sign(t) \o WithPoint(SubSeq(digs, 1, x + 1), SubSeq(digs, x + 2, prec))
             ELSE Sign(t) \o WithPoint(<<"0">>, Zeros(-x - 1) \o digs)
        ELSE Sign(t) \o WithPoint(<<digs[1]>>, SubSeq(digs, 2, prec))
             \o <<"e", IF x < 0 THEN "-" ELSE "+">> \o DigitsN(np_abs(x), 2)

(***************************************************************************)
(* The values the functions are called with.                               *)
(*   series: a pandas Series; a Series of categorical dtype carries the    *)
(*           labels its dtype declares, which include those of its data.   *)
(*   float, int: Python scalars.                                           *)
(*   dist:   an xarray DataArray, by what its mean() and quantile()        *)
(*           return (quantile levels in percent).                          *)
(***************************************************************************)
TailPct == 3

DefaultSigFigs == 2

DefaultRoundTo == 2

Levels == {TailPct, 100 - TailPct}

Columns == UNION { [1..n -> 0..MaxVal] : n \in 0..MaxLen }

set(data) == { data[i] : i \in DOMAIN data }

SeriesArgs ==
    { [kind |-> "series", data |-> c, categorical |-> FALSE, categories |-> {}] :
        c \in Columns }
    \cup
    { [kind |-> "series", data |-> cd[1], categorical |-> TRUE, categories |-> cd[2]] :
        cd \in { x \in Columns \X SUBSET (0..MaxVal) : set(x[1]) \subseteq x[2] } }

FloatArgs == { [kind |-> "float", t |-> t] : t \in Floats }

IntArgs == { [kind |-> "int", t |-> t] : t \in Ints }

DistArgs ==
    { [kind |-> "dist", mean |-> m, q |-> q] :
        m \in DistMeans,
        q \in { f \in [Levels -> DistVals] : f[TailPct] <= f[100 - TailPct] } }

Args == SeriesArgs \cup FloatArgs \cup IntArgs \cup DistArgs

\* round_to and default: the counts every function accepts (a negative
\* precision is no format specification).
RoundTos == 0..MaxRoundTo

\* An optional argument: <<>> when the caller leaves it out.
Optional(S) == {<<>>} \cup { <<v>> : v \in S }

(***************************************************************************)
(* The functions of utils.py.                                              *)
(***************************************************************************)
\* A slip: one stray value tolerated.
_is_variable_dummy_coded_lenient(series) ==
    Cardinality(set(series.data) \ {0, 1}) <= 1

_is_variable_dummy_coded(series) ==
    Cardinality(set(series.data) \ {0, 1}) = 0

\* pd.Categorical(series).categories: the declared labels of a categorical
\* Series, the distinct values of any other.
pd_Categorical(series) ==
    [categories |-> IF series.categorical THEN series.categories ELSE set(series.data)]

_series_has_2_levels(series) ==
    Cardinality(pd_Categorical(series).categories) = 2

\* default is None (<<>>) or an integer (<<d>>).
_format_sig_figs(value, default) ==
    LET d == IF default = <<>> THEN DefaultSigFigs ELSE default[1]
    IN  IF value = 0 THEN 1
        ELSE max(int(np_log10(np_abs(value))) + 1, d)

\* A slip: round_to used as the precision, without the selector.
round_num_plain(n, round_to) == FormatG(n, round_to)

round_num(n, round_to) ==
    LET sig_figs == _format_sig_figs(n, <<round_to>>)
    IN  FormatG(n, sig_figs)

\* A slip: any number taken for a float.
isinstance_number(x) == x.kind \in {"float", "int"}

isinstance_float(x) == x.kind = "float"

\* x.quantile(qs).values
quantile(x, qs) == [i \in DOMAIN qs |-> x.q[qs[i]]]

CILabel == <<"$", "C", "I", "_", "{", "9", "4", "\\", "%", "}", "$">>

\* The outcome of a call of convert_to_string: the string returned or the
\* exception raised, and the operations the call went through, in order.

\* A slip: the scalar branch honouring round_to.
scalar_branch_rounded(x, round_to) ==
    [kind |-> "str", val |-> round_num(x.t, round_to),
     calls |-> <<"round_num", "_format_sig_figs">>]

scalar_branch(x, round_to) ==
    [kind |-> "str", val |-> Format2f(x.t), calls |-> <<>>]

distribution_branch(x, round_to) ==
    IF x.kind # "dist"
    THEN [kind |-> "error", val |-> "AttributeError", calls |-> <<"quantile">>]
    ELSE LET percentiles == quantile(x, <<TailPct, 100 - TailPct>>)
             ci == CILabel \o <<"[">> \o round_num(percentiles[1], round_to)
                   \o <<",", " ">> \o round_num(percentiles[2], round_to) \o <<"]">>
         IN  [kind |-> "str", val |-> Format2f(x.mean) \o ci,
              calls |-> <<"quantile", "round_num", "_format_sig_figs",
                          "round_num", "_format_sig_figs", "mean">>]

convert_to_string(x, round_to) ==
    IF isinstance_float(x)
    THEN scalar_branch(x, round_to)
    ELSE distribution_branch(x, round_to)

(***************************************************************************)
(* The state: the object passed as first argument, the optional second     *)
(* argument of the last call, the function last called, what it returned   *)
(* or raised, and the operations it went through.                          *)
(***************************************************************************)
Init ==
    /\ arg \in Args
    /\ opt = <<>>
    /\ op = "none"
    /\ result = [kind |-> "none", val |-> "none"]
    /\ called = <<>>

\* A slip: the column deduplicated in place while it is checked.
IsVariableDummyCodedInPlace ==
    /\ arg.kind = "series"
    /\ op' = "_is_variable_dummy_coded"
    /\ opt' = <<>>
    /\ result' = [kind |-> "bool", val |-> _is_variable_dummy_coded(arg)]
    /\ called' = <<>>
    /\ arg' = [arg EXCEPT !.data = IF Len(@) > 1 /\ @[1] = @[2] THEN Tail(@) ELSE @]

IsVariableDummyCoded ==
    /\ arg.kind = "series"
    /\ op' = "_is_variable_dummy_coded"
    /\ opt' = <<>>
    /\ result' = [kind |-> "bool", val |-> _is_variable_dummy_coded(arg)]
    /\ called' = <<>>
    /\ UNCHANGED arg

SeriesHas2Levels ==
    /\ arg.kind = "series"
    /\ op' = "_series_has_2_levels"
    /\ opt' = <<>>
    /\ result' = [kind |-> "bool", val |-> _series_has_2_levels(arg)]
    /\ called' = <<>>
    /\ UNCHANGED arg

FormatSigFigs ==
    /\ arg.kind \in {"float", "int"}
    /\ \E default \in Optional(RoundTos) :
        /\ opt' = default
        /\ result' = [kind |-> "int", val |-> _format_sig_figs(arg.t, default)]
    /\ op' = "_format_sig_figs"
    /\ called' = <<>>
    /\ UNCHANGED arg

RoundNum ==
    /\ arg.kind \in {"float", "int"}
    /\ \E round_to \in RoundTos :
        /\ opt' = <<round_to>>
        /\ result' = [kind |-> "str", val |-> round_num(arg.t, round_to)]
    /\ op' = "round_num"
    /\ called' = <<"_format_sig_figs">>
    /\ UNCHANGED arg

ConvertToString ==
    /\ arg.kind \in {"float", "int", "dist"}
    /\ \E round_to \in Optional(RoundTos) :
        LET r == convert_to_string(arg, IF round_to = <<>> THEN DefaultRoundTo
                                                           ELSE round_to[1])
        IN  /\ opt' = round_to
            /\ result' = [kind |-> r.kind, val |-> r.val]
            /\ called' = r.calls
    /\ op' = "convert_to_string"
    /\ UNCHANGED arg

Next ==
    \/ IsVariableDummyCoded
    \/ SeriesHas2Levels
    \/ FormatSigFigs
    \/ RoundNum
    \/ ConvertToString

Spec == Init /\ [][Next]_vars

(***************************************************************************)
(* Properties.                                                             *)
(***************************************************************************)
IsDigit(c) == \E d \in 1..10 : DigitChar[d] = c

RECURSIVE ParseNat(_)
ParseNat(s) ==
    IF s = <<>> THEN 0
    ELSE 10 * ParseNat(SubSeq(s, 1, Len(s) - 1))
         + (CHOOSE d \in 0..9 : DigitChar[d + 1] = s[Len(s)])

\* The decade of a / Scale: the e with 10^e <= a / Scale < 10^(e+1).
InDecade(e, a) ==
    IF e >= 0
    THEN a >= Scale /\ Scale * Pow10(e) <= a /\ a < Scale * Pow10(e + 1)
    ELSE a < Scale /\ a * Pow10(-e) >= Scale /\ a * Pow10(-e - 1) < Scale

Decade(a) == CHOOSE e \in (-ScaleExp - 1)..ScaleExp : InDecade(e, a)

OptOr(o, dflt) == IF o = <<>> THEN dflt ELSE o[1]

\* C1: _is_variable_dummy_coded returns true if and only if every value of
\* the column is 0 or 1 (the empty column included).
C1_DummyCodedIff ==
    op = "_is_variable_dummy_coded" =>
        (result.val <=> \A i \in 1..Len(arg.data) : arg.data[i] = 0 \/ arg.data[i] = 1)

C1_Witness ==
    /\ op = "_is_variable_dummy_coded"
    /\ arg.data = <<0, 1, 2>>
    /\ result.val = FALSE

\* C2: _series_has_2_levels returns true if and only if the number of distinct
\* labels present in the column is exactly 2.
C2_TwoLevelsIff ==
    op = "_series_has_2_levels" =>
        (result.val <=> Cardinality({ arg.data[i] : i \in 1..Len(arg.data) }) = 2)

\* C6: for a column of categorical dtype, labels declared but absent from the
\* data are not counted: two labels in the data give true, one gives false.
C6_UnusedLabelsExcluded ==
    (op = "_series_has_2_levels" /\ arg.categorical) =>
        LET present == Cardinality({ arg.data[i] : i \in 1..Len(arg.data) })
        IN  /\ present = 2 => result.val = TRUE
            /\ present = 1 => result.val = FALSE

C8_PositiveCount ==
    (op = "_format_sig_figs" /\ (opt = <<>> \/ opt[1] >= 1)) =>
        /\ result.val \in Nat
        /\ result.val >= 1
        /\ arg.t # 0 => result.val >= OptOr(opt, 2)

C8_Witness ==
    /\ op = "_format_sig_figs"
    /\ arg.t < 0
    /\ -arg.t < Scale
    /\ opt = <<3>>
    /\ result.val = 3

\* The number a decimal string denotes, times Scale: an optional minus sign,
\* digits, an optional point and digits, an optional exponent "e+dd".
IndexOf(s, c) == IF \E i \in 1..Len(s) : s[i] = c
                 THEN CHOOSE i \in 1..Len(s) : s[i] = c /\ \A j \in 1..(i - 1) : s[j] # c
                 ELSE 0

ParseNum(s) ==
    LET neg == s # <<>> /\ s[1] = "-"
        body == IF neg THEN Tail(s) ELSE s
        epos == IndexOf(body, "e")
        mant == IF epos = 0 THEN body ELSE SubSeq(body, 1, epos - 1)
        ex == IF epos = 0 THEN 0
              ELSE (IF body[epos + 1] = "-" THEN -1 ELSE 1)
                   * ParseNat(SubSeq(body, epos + 2, Len(body)))
        dot == IndexOf(mant, ".")
        whole == IF dot = 0 THEN mant ELSE SubSeq(mant, 1, dot - 1)
        frac == IF dot = 0 THEN <<>> ELSE SubSeq(mant, dot + 1, Len(mant))
        shift == ScaleExp + ex - Len(frac)
        n == ParseNat(whole \o frac)
        v == IF shift >= 0 THEN n * Pow10(shift) ELSE n \div Pow10(-shift)
    IN  IF neg THEN -v ELSE v

\* C7: round_num(n, round_to), round_to positive, returns a string denoting n
\* rounded to round_to significant figures: a multiple of the unit of the
\* round_to-th significant digit of n, at most half a unit away from n.
C7_RoundToSigFigs ==
    (op = "round_num" /\ opt[1] >= 1 /\ arg.t # 0) =>
        LET a == IF arg.t < 0 THEN -arg.t ELSE arg.t
            k == opt[1] - 1 - Decade(a)
            u == Pow10(ScaleExp - k)
            v == ParseNum(result.val)
        IN  /\ v % u = 0
            /\ 2 * (IF v >= arg.t THEN v - arg.t ELSE arg.t - v) <= u

TwoDecimals(s) ==
    LET body == IF s # <<>> /\ s[1] = "-" THEN Tail(s) ELSE s
        n == Len(body)
    IN  /\ n >= 4
        /\ body[n - 2] = "."
        /\ \A i \in (1..n) \ {n - 2} : IsDigit(body[i])

\* C5: for a float, convert_to_string returns the float to exactly two
\* decimals (the nearest hundredth), whatever round_to is, and goes through
\* neither the selector nor a quantile.
C5_ScalarTwoDecimals ==
    (op = "convert_to_string" /\ arg.kind = "float") =>
        LET a == IF arg.t < 0 THEN -arg.t ELSE arg.t
            cent == Scale \div 100
            h == ParseNat(SelectSeq(result.val, IsDigit)) * cent
        IN  /\ result.kind = "str"
            /\ TwoDecimals(result.val)
            /\ (result.val[1] = "-") <=> (arg.t < 0)
            /\ 2 * (IF h >= a THEN h - a ELSE a - h) <= cent
            /\ \A r \in RoundTos : convert_to_string(arg, r).val = result.val
            /\ called = <<>>

C5_Witness ==
    /\ op = "convert_to_string"
    /\ arg.kind = "float"
    /\ arg.t = 2 * Sixteenth
    /\ opt = <<4>>
    /\ result.val = <<"0", ".", "1", "2">>

C10_FloatBranchOnly ==
    op = "convert_to_string" =>
        /\ arg.kind = "float" => (called = <<>> /\ result.kind = "str")
        /\ arg.kind # "float" => (called # <<>> /\ called[1] = "quantile")
        /\ arg.kind = "dist" =>
             (result.kind = "str" /\ \E i \in 2..Len(called) : called[i] = "mean")
        /\ arg.kind = "int" =>
             (result = [kind |-> "error", val |-> "AttributeError"]
              /\ called = <<"quantile">>)

C10_Witness ==
    /\ op = "convert_to_string"
    /\ arg = [kind |-> "int", t |-> 3 * Scale]
    /\ result.kind = "error"
    /\ called = <<"quantile">>

====
